---- MODULE Spec2Model ----
(***************************************************************************)
(* The exchange-rate pipeline of src/server.js: the process-wide cache     *)
(* exchangeRateCache, the ordered provider list EXCHANGE_RATE_APIS, the    *)
(* resolver fetchExchangeRate and the handler of GET /api/exchange-rate.   *)
(*                                                                         *)
(* Node runs the handler and the resolver on one thread: code between two  *)
(* awaits runs without interleaving.  One action is therefore one such     *)
(* run: the arrival of a request up to the first await, or the resumption  *)
(* of a call by one provider's response up to the next await or the end.   *)
(* A call that has ended leaves its slot; what it answered is kept in      *)
(* `reply` until the next call ends, with the provider response that       *)
(* ended it.                                                               *)
(*                                                                         *)
(* Numbers: a rate is an exact decimal held as an integer count of 10^-5,  *)
(* so that rounding to 4 decimals is a real computation; 1e999, which      *)
(* JSON.parse reads as Infinity, is a value of its own.  Times are         *)
(* milliseconds.                                                           *)
(***************************************************************************)
EXTENDS Integers, Sequences, FiniteSets, TLC

\* ---------------------------------------------------------------- bounds
MaxCalls == 2
MaxRequests == 2
MaxHours == 1

\* ------------------------------------------------------------- JS values
Undefined == [t |-> "undefined"]
Null == [t |-> "null"]
Infinity == [t |-> "infinity"]
NaN == [t |-> "nan"]

Num(n) == [t |-> "number", v |-> n]

Str(s) == [t |-> "string", s |-> s]

IsNumber(x) == x.t \in {"number", "infinity", "nan"}

\* ToNumber of the strings the providers are made to send
StringToNumber(s) == IF s = "7.2" THEN Num(720000) ELSE NaN

\* ToBoolean: undefined, null, 0, NaN and "" are falsy; an object (here a
\* record without a type tag, or one tagged "object") is truthy
Truthy(x) ==
  IF "t" \notin DOMAIN x THEN TRUE
  ELSE CASE x.t \in {"undefined", "null", "nan"} -> FALSE
         [] x.t = "number" -> x.v # 0
         [] x.t = "string" -> x.s # ""
         [] OTHER -> TRUE

\* x > 0 by the abstract relational comparison: a string is converted with
\* ToNumber, an object or undefined gives NaN, and NaN compares false
GreaterThanZero(x) ==
  LET n == CASE IsNumber(x) -> x
             [] x.t = "string" -> StringToNumber(x.s)
             [] x.t = "null" -> Num(0)
             [] OTHER -> NaN
  IN CASE n.t = "number" -> n.v > 0
       [] n.t = "infinity" -> TRUE
       [] OTHER -> FALSE

\* the digits after the fourth decimal cut off instead of rounded
toFixed4_Truncate(x) ==
  IF x.t = "infinity" THEN [t |-> "string", s |-> "Infinity"]
  ELSE LET a == IF x.v < 0 THEN 0 - x.v ELSE x.v
       IN [t |-> "fixed4", neg |-> (x.v < 0), n |-> a \div 10]

\* Number.prototype.toFixed(4): the decimal string of the value rounded to
\* 4 decimals, halves away from zero; held as a sign and a count of 10^-4.
\* Infinity gives the string "Infinity".
toFixed4(x) ==
  IF x.t = "infinity" THEN [t |-> "string", s |-> "Infinity"]
  ELSE LET a == IF x.v < 0 THEN 0 - x.v ELSE x.v
       IN [t |-> "fixed4", neg |-> (x.v < 0), n |-> (a + 5) \div 10]

\* parseFloat of a string that toFixed produced
parseFloat(s) ==
  IF s.t = "fixed4" THEN Num((IF s.neg THEN 0 - 1 ELSE 1) * s.n * 10)
  ELSE IF s.s = "Infinity" THEN Infinity ELSE NaN

\* ------------------------------------------------------ program constants
\* exchangeRateCache.duration: the freshness window, one hour in ms
duration == 60 * 60 * 1000

supportedCurrencies == {"USD", "CNY", "EUR", "GBP", "JPY", "KRW"}

\* data.rates?.[to], the parse function of all three providers.  Reading
\* .rates of null throws a TypeError; a missing rates object short-circuits
\* to undefined; a missing key reads as undefined.
parse(data, to) ==
  IF data.t = "null" THEN [threw |-> TRUE, val |-> Undefined]
  ELSE IF data.rates.t \in {"undefined", "null"}
       THEN [threw |-> FALSE, val |-> Undefined]
       ELSE [threw |-> FALSE,
             val |-> IF data.rates.code = to THEN data.rates.val ELSE Undefined]

\* the first two providers listed the other way round
EXCHANGE_RATE_APIS_Swapped ==
  << [name |-> "open.er-api.com"],
     [name |-> "exchangerate-api.com"],
     [name |-> "api.frankfurter.app"] >>

\* the provider list, in priority order
EXCHANGE_RATE_APIS ==
  << [name |-> "exchangerate-api.com"],
     [name |-> "open.er-api.com"],
     [name |-> "api.frankfurter.app"] >>

\* ------------------------------------------------------------ environment
\* what a request's query may carry for from and for to; NoParam is a
\* query without the parameter, "XXX" a code that is not supported
NoParam == "<absent>"

QueryFrom == {NoParam, "USD", "XXX"}

QueryTo == {NoParam, "USD", "XXX"}

\* the same with requests for the reversed pair CNY-USD as well
PairQueryFrom == QueryFrom \cup {"CNY"}

\* the rates[to] values a provider is made to send
RateValues ==
  { Num(0), Num(0 - 723457), Num(4), Num(723457), Infinity,
    Str("7.2"), Str("abc") }

Rates(code, val) == [t |-> "object", code |-> code, val |-> val]

Body(rates) == [t |-> "object", rates |-> rates]

Text(value) == [json |-> TRUE, value |-> value]

Garbage == [json |-> FALSE, value |-> Undefined]

\* every way one provider can answer a request for the pair (from, to): a
\* transport error, or a body that is no JSON, null, an object without
\* rates, rates without the target code, or rates[to] of each value
Responses(from, to) ==
  { [kind |-> "error", text |-> Garbage] }
  \cup { [kind |-> "end", text |-> x] :
           x \in { Garbage, Text(Null), Text(Body(Undefined)),
                   Text(Body(Rates(from, Num(100000)))) } }
  \cup { [kind |-> "end", text |-> Text(Body(Rates(to, v)))] : v \in RateValues }

\* the answers among them that the two-pair specification draws from: one
\* failure and the two finite rates
PairResponses(from, to) ==
  { [kind |-> "error", text |-> Garbage] }
  \cup { [kind |-> "end", text |-> Text(Body(Rates(to, v)))] :
           v \in { Num(4), Num(723457) } }

\* JSON.parse: throws on text that is no JSON
JSONparse(text) ==
  IF text.json THEN [threw |-> FALSE, val |-> text.value]
  ELSE [threw |-> TRUE, val |-> Undefined]

\* ------------------------------------------------------------------ state
VARIABLES
  exchangeRateCache,  \* exchangeRateCache.data: cache key -> entry
  clock,              \* what Date.now() returns
  calls,              \* the requests in flight, one record per slot
  reply,              \* the request answered last, and its answer
  served              \* how many requests have arrived

vars == << exchangeRateCache, clock, calls, reply, served >>

Calls == 1 .. MaxCalls

\* `${from}-${to}`
cacheKey(from, to) == from \o "-" \o to

\* exchangeRateCache.data[cacheKey]: undefined when the key is absent
Lookup(data, key) == IF key \in DOMAIN data THEN data[key] ELSE Undefined

\* the whole object replaced by one that holds the new entry alone
Store_Replace(data, key, result) == [k \in {key} |-> result]

\* exchangeRateCache.data[cacheKey] = result
Store(data, key, result) ==
  [k \in DOMAIN data \cup {key} |-> IF k = key THEN result ELSE data[k]]

\* the window taken in seconds where the timestamps are milliseconds
IsFresh_Seconds(cached, now) ==
  Truthy(cached) /\ now - cached.timestamp < 60 * 60

\* cached && (now - cached.timestamp < exchangeRateCache.duration)
IsFresh(cached, now) ==
  Truthy(cached) /\ now - cached.timestamp < duration

\* what fetchExchangeRate gives its caller
Return(entry, fromCache) ==
  [type |-> "return", rate |-> entry.rate, timestamp |-> entry.timestamp,
   source |-> entry.source, fromCache |-> fromCache]

NoRateAvailable == "NoRateAvailable"

Throw(error) == [type |-> "throw", error |-> error]

NoResult == [type |-> "none"]

\* the body of the try block for one provider, given its response: the
\* promise rejects on a transport error and on a body that is no JSON;
\* api.parse may throw; a rate passing `rate && rate > 0` is rounded, which
\* throws when the rate has no toFixed; anything else falls through
TryBody(api, resp, to, now) ==
  LET data == IF resp.kind = "error"
              THEN [threw |-> TRUE, val |-> Undefined]
              ELSE JSONparse(resp.text)
      rate == IF data.threw THEN data ELSE parse(data.val, to)
  IN IF rate.threw THEN [kind |-> "throw", error |-> "ProviderError"]
     ELSE IF Truthy(rate.val) /\ GreaterThanZero(rate.val)
          THEN IF IsNumber(rate.val)
               THEN [kind |-> "return",
                     result |-> [rate |-> parseFloat(toFixed4(rate.val)),
                                 timestamp |-> now,
                                 source |-> api.name]]
               ELSE [kind |-> "throw", error |-> "TypeError"]
          ELSE [kind |-> "fallthrough"]

\* a loop without the try/catch: the error leaves fetchExchangeRate
Catch_Rethrow(outcome) == outcome

\* catch (error) { console.log(...); continue; }
Catch(outcome) ==
  IF outcome.kind = "throw" THEN [kind |-> "continue"] ELSE outcome

\* the degraded path left out
Exhausted_NoFallback(cached) == Throw(NoRateAvailable)

\* the stale entry handed back without the flag
Exhausted_Unflagged(cached) ==
  IF Truthy(cached) THEN Return(cached, FALSE) ELSE Throw(NoRateAvailable)

\* after the loop: the entry read when the call began, flagged as degraded,
\* or the error
Exhausted(cached) ==
  IF Truthy(cached) THEN Return(cached, TRUE) ELSE Throw(NoRateAvailable)

\* new Date(ms).toISOString()
toISOString(ms) == [iso |-> ms]

\* the catch block answering without res.status(500)
Respond_Status200(from, to, result) ==
  IF result.type = "return"
  THEN [status |-> 200, success |-> TRUE, base |-> from, target |-> to,
        rate |-> result.rate, timestamp |-> toISOString(result.timestamp),
        source |-> result.source, fromCache |-> result.fromCache]
  ELSE [status |-> 200, success |-> FALSE, error |-> result.error]

\* the handler's answer to what fetchExchangeRate gave: res.json of the
\* result, or the catch block's 500
Respond(from, to, result) ==
  IF result.type = "return"
  THEN [status |-> 200, success |-> TRUE, base |-> from, target |-> to,
        rate |-> result.rate, timestamp |-> toISOString(result.timestamp),
        source |-> result.source, fromCache |-> result.fromCache]
  ELSE [status |-> 500, success |-> FALSE, error |-> result.error]

\* the answer to an unsupported currency code
BadRequest == [status |-> 400, success |-> FALSE, error |-> "unsupported"]

\* the identity answer flagged as a degraded one
Direct_Degraded(from, to, now) ==
  [status |-> 200, success |-> TRUE, base |-> from, target |-> to,
   rate |-> Num(100000), timestamp |-> toISOString(now),
   source |-> "direct", fromCache |-> TRUE]

\* the answer to from === to
Direct(from, to, now) ==
  [status |-> 200, success |-> TRUE, base |-> from, target |-> to,
   rate |-> Num(100000), timestamp |-> toISOString(now),
   source |-> "direct", fromCache |-> FALSE]

IdleCall ==
  [pc |-> "idle", from |-> "", to |-> "", now |-> 0, cached |-> Undefined,
   api |-> 0, invoked |-> << >>]

NoResponse == [kind |-> "none", text |-> Garbage]

NoReply ==
  [from |-> "", to |-> "", invoked |-> << >>, resp |-> NoResponse,
   result |-> NoResult, http |-> [status |-> 0]]

Init ==
  /\ exchangeRateCache = << >>
  /\ clock = 0
  /\ calls = [c \in Calls |-> IdleCall]
  /\ reply = NoReply
  /\ served = 0

\* const { from = 'USD', to = 'CNY' } = req.query
QueryParam(value, default) == IF value = NoParam THEN default ELSE value

\* https.get(api.url(from, to), ...): the call waits for provider i
Await(call, i) ==
  [call EXCEPT !.pc = "await", !.api = i,
               !.invoked = Append(call.invoked, EXCHANGE_RATE_APIS[i].name)]

\* fetchExchangeRate ends with `result` after the response `resp`, and the
\* handler answers it
Answer(call, resp, result) ==
  [from |-> call.from, to |-> call.to, invoked |-> call.invoked,
   resp |-> resp, result |-> result,
   http |-> Respond(call.from, call.to, result)]

\* GET /api/exchange-rate arrives: validation, the identity answer, and
\* fetchExchangeRate up to its first await
Request(c, qfrom, qto) ==
  LET from == QueryParam(qfrom, "USD")
      to == QueryParam(qto, "CNY")
      cached == Lookup(exchangeRateCache, cacheKey(from, to))
      call == [IdleCall EXCEPT !.from = from, !.to = to,
                               !.now = clock, !.cached = cached]
  IN /\ served < MaxRequests
     /\ calls[c].pc = "idle"
     /\ \A d \in Calls : d < c => calls[d].pc # "idle"
     /\ served' = served + 1
     /\ UNCHANGED << exchangeRateCache, clock >>
     /\ IF from \notin supportedCurrencies \/ to \notin supportedCurrencies
        THEN /\ reply' = [NoReply EXCEPT !.from = from, !.to = to,
                                         !.http = BadRequest]
             /\ UNCHANGED calls
        ELSE IF from = to
        THEN /\ reply' = [NoReply EXCEPT !.from = from, !.to = to,
                                         !.http = Direct(from, to, clock)]
             /\ UNCHANGED calls
        ELSE IF IsFresh(cached, clock)
        THEN /\ reply' = Answer(call, NoResponse, Return(cached, FALSE))
             /\ UNCHANGED calls
        ELSE /\ calls' = [calls EXCEPT ![c] = Await(call, 1)]
             /\ UNCHANGED reply

\* provider call.api answers call c with `resp`: the rest of the try
\* block, then the next provider's request, or the end of the loop
Resume(c, resp) ==
  LET call == calls[c]
      api == EXCHANGE_RATE_APIS[call.api]
      outcome == Catch(TryBody(api, resp, call.to, call.now))
  IN /\ UNCHANGED << clock, served >>
     /\ CASE outcome.kind = "return" ->
               /\ exchangeRateCache' =
                    Store(exchangeRateCache, cacheKey(call.from, call.to),
                          outcome.result)
               /\ reply' = Answer(call, resp, Return(outcome.result, FALSE))
               /\ calls' = [calls EXCEPT ![c] = IdleCall]
          [] outcome.kind = "throw" ->
               /\ UNCHANGED exchangeRateCache
               /\ reply' = Answer(call, resp, Throw(outcome.error))
               /\ calls' = [calls EXCEPT ![c] = IdleCall]
          [] OTHER ->
               /\ UNCHANGED exchangeRateCache
               /\ IF call.api < Len(EXCHANGE_RATE_APIS)
                  THEN /\ calls' = [calls EXCEPT ![c] = Await(call, call.api + 1)]
                       /\ UNCHANGED reply
                  ELSE /\ reply' = Answer(call, resp, Exhausted(call.cached))
                       /\ calls' = [calls EXCEPT ![c] = IdleCall]

\* the provider that call c waits for answers, in any of the ways it can
ProviderRespond(c) ==
  /\ calls[c].pc = "await"
  /\ \E resp \in Responses(calls[c].from, calls[c].to) : Resume(c, resp)

\* the same, with the answers of the two-pair specification
PairProviderRespond(c) ==
  /\ calls[c].pc = "await"
  /\ \E resp \in PairResponses(calls[c].from, calls[c].to) : Resume(c, resp)

\* provider call.api never answers, or its response never ends: neither
\* 'end' nor 'error' fires, the promise stays pending, and nothing in
\* fetchExchangeRate sets a timeout.  The call is never resumed, so its
\* locals are never read again and are dropped here.
NeverAnswers(c) ==
  /\ calls[c].pc = "await"
  /\ calls' = [calls EXCEPT ![c] =
       [IdleCall EXCEPT !.pc = "hung", !.from = calls[c].from,
                        !.to = calls[c].to, !.api = calls[c].api,
                        !.invoked = calls[c].invoked]]
  /\ UNCHANGED << exchangeRateCache, clock, reply, served >>

\* time passes
Tick(d) ==
  /\ clock + d <= MaxHours * duration
  /\ clock' = clock + d
  /\ UNCHANGED << exchangeRateCache, calls, reply, served >>

Next ==
  \/ \E c \in Calls, qfrom \in QueryFrom, qto \in QueryTo :
       Request(c, qfrom, qto)
  \/ \E c \in Calls : ProviderRespond(c)
  \/ \E c \in Calls : NeverAnswers(c)
  \/ \E d \in {duration - 1, duration} : Tick(d)

PairNext ==
  \/ \E c \in Calls, qfrom \in PairQueryFrom, qto \in QueryTo :
       Request(c, qfrom, qto)
  \/ \E c \in Calls : PairProviderRespond(c)
  \/ \E c \in Calls : NeverAnswers(c)
  \/ \E d \in {duration - 1, duration} : Tick(d)

\* requests for USD-CNY, for the identity pair and with unsupported codes
Spec == Init /\ [][Next]_vars

\* requests for CNY-USD as well, and fewer kinds of provider answers
PairSpec == Init /\ [][PairNext]_vars

\* a provider that answers at all answers eventually
FairSpec == Spec /\ \A c \in Calls : WF_vars(ProviderRespond(c))

\* ============================================================== properties
\* what the properties below say about a step

\* a request arrives in this step
Arrives == served' = served + 1

\* the pair a request arriving in this step asks for: that of the call it
\* starts, or that of the answer it gets at once
ArrivingPair ==
  IF calls' = calls THEN << reply'.from, reply'.to >>
  ELSE LET c == CHOOSE c \in Calls : calls'[c] # calls[c]
       IN << calls'[c].from, calls'[c].to >>

\* the canonical key "{FROM}-{TO}" of a pair
PairKey(pair) == pair[1] \o "-" \o pair[2]

\* call c, waiting for a provider, ends in this step
Ends(c) == calls[c].pc = "await" /\ calls'[c].pc = "idle"

\* the providers in the order the specification declares them
DeclaredOrder ==
  << "exchangerate-api.com", "open.er-api.com", "api.frankfurter.app" >>

IsPrefix(s, t) == Len(s) <= Len(t) /\ s = SubSeq(t, 1, Len(s))

\* the rate, timestamp and source of a returned result
EntryOf(result) ==
  [rate |-> result.rate, timestamp |-> result.timestamp, source |-> result.source]

\* the answer in `r` is a rate obtained from a provider in that call
FromProvider(r) ==
  r.result.type = "return" /\ ~r.result.fromCache /\ r.invoked # << >>

\* a request is answered in this step: on arrival, or as its call ends
Answered == (Arrives /\ calls' = calls) \/ \E c \in Calls : Ends(c)

\* the value a response carries for the target code: undefined when the
\* request failed or the body is no JSON, is null, or lacks rates or the code
RateIn(resp, to) ==
  IF /\ resp.kind = "end"
     /\ resp.text.json
     /\ resp.text.value.t = "object"
     /\ resp.text.value.rates.t = "object"
     /\ resp.text.value.rates.code = to
  THEN resp.text.value.rates.val
  ELSE Undefined

\* a finite number strictly greater than zero
Acceptable(v) == v.t = "number" /\ v.v > 0

\* a provider's failure, as the specification lists them: a transport error, a body that is no
\* JSON, is null or lacks rates or the target code, or a rate that is zero,
\* negative, or a string (numeric or not)
ListedFailure(resp, to) ==
  LET v == RateIn(resp, to)
  IN \/ resp.kind = "error"
     \/ /\ resp.kind = "end"
        /\ \/ ~resp.text.json
           \/ v = Undefined
           \/ v.t = "number" /\ v.v <= 0
           \/ v.t = "string"

\* ---------------------------------------------------------------------- C1
\* C1: when a request for a pair with from # to arrives and the cache holds
\* an entry for the pair whose age is strictly less than one hour, the call
\* returns that entry's rate, timestamp and source with fromCache false,
\* invokes no provider and leaves the cache unchanged; so a call arriving
\* within the window after a provider resolution of the same pair returns
\* the same tuple as that resolution did.
C1_CacheHit ==
  [][ Arrives =>
        LET pair == ArrivingPair
            key == PairKey(pair)
        IN (/\ pair[1] # pair[2]
            /\ key \in DOMAIN exchangeRateCache
            /\ clock - exchangeRateCache[key].timestamp < 60 * 60 * 1000)
           => /\ calls' = calls
              /\ exchangeRateCache' = exchangeRateCache
              /\ reply'.invoked = << >>
              /\ reply'.result.type = "return"
              /\ EntryOf(reply'.result) = exchangeRateCache[key]
              /\ reply'.result.fromCache = FALSE
              /\ (FromProvider(reply) /\ << reply.from, reply.to >> = pair)
                   => reply'.result = reply.result
    ]_vars

\* a call was answered from an entry 59 min 59.999 s old
C1_Witness ==
  /\ reply.result.type = "return"
  /\ reply.invoked = << >>
  /\ ~reply.result.fromCache
  /\ clock - reply.result.timestamp = 60 * 60 * 1000 - 1
  /\ exchangeRateCache[PairKey(<< reply.from, reply.to >>)] = EntryOf(reply.result)

\* ---------------------------------------------------------------------- C2
\* C2: in one call without a fresh entry the providers are attempted in the
\* declared order, one at a time and each at most once: the providers a
\* call has invoked are always a prefix of the declared list, provider k+1
\* is invoked only in a step in which the call was waiting for provider k
\* and that neither wrote the cache nor answered (provider k failed), the
\* source of a rate obtained from a provider is the last provider invoked,
\* and a call that has ended invokes nothing more.
C2_FallbackOrder ==
  [][ /\ \A c \in Calls :
           /\ calls'[c].pc = "idle" => calls'[c].invoked = << >>
           /\ calls'[c].pc # "idle" =>
                /\ calls'[c].invoked # << >>
                /\ IsPrefix(calls'[c].invoked, DeclaredOrder)
           /\ (calls[c].pc # "idle" /\ calls'[c].pc # "idle"
                 /\ calls'[c].invoked # calls[c].invoked) =>
                /\ calls[c].pc = "await"
                /\ Len(calls[c].invoked) < Len(DeclaredOrder)
                /\ calls'[c].invoked =
                     Append(calls[c].invoked,
                            DeclaredOrder[Len(calls[c].invoked) + 1])
                /\ exchangeRateCache' = exchangeRateCache
                /\ reply' = reply
           /\ (calls[c].pc = "idle" /\ calls'[c].pc # "idle") =>
                calls'[c].invoked = << DeclaredOrder[1] >>
           /\ Ends(c) => reply'.invoked = calls[c].invoked
      /\ FromProvider(reply') =>
           reply'.result.source = reply'.invoked[Len(reply'.invoked)]
    ]_vars

\* provider 1 failed and provider 2 gave the rate: provider 3 was not invoked
C2_Witness ==
  /\ FromProvider(reply)
  /\ reply.invoked = << "exchangerate-api.com", "open.er-api.com" >>
  /\ reply.result.source = "open.er-api.com"

\* ---------------------------------------------------------------------- C3
\* C3: a call that began with an entry for its pair that was not fresh and
\* that ends on a provider's failure (which only the last provider's can
\* be, C6) returns that entry's rate, timestamp and source with fromCache
\* true; and a result has fromCache true only when all providers were
\* invoked, the last one failed, nothing was written and the returned entry
\* is at least one hour old.
C3_DegradedFallback ==
  [][ /\ (Arrives /\ calls' # calls) =>
           LET c == CHOOSE c \in Calls : calls'[c] # calls[c]
           IN /\ calls'[c].now = clock
              /\ calls'[c].cached =
                   Lookup(exchangeRateCache, PairKey(ArrivingPair))
      /\ \A c \in Calls :
           (/\ Ends(c)
            /\ ListedFailure(reply'.resp, calls[c].to)
            /\ calls[c].cached # Undefined) =>
             /\ clock - calls[c].cached.timestamp >= 60 * 60 * 1000
             /\ reply'.result.type = "return"
             /\ EntryOf(reply'.result) = calls[c].cached
             /\ reply'.result.fromCache = TRUE
             /\ reply'.http.status = 200
             /\ reply'.http.fromCache = TRUE
      /\ (Answered /\ reply'.result.type = "return"
            /\ reply'.result.fromCache) =>
           /\ reply'.invoked = DeclaredOrder
           /\ ListedFailure(reply'.resp, reply'.to)
           /\ exchangeRateCache' = exchangeRateCache
           /\ clock - reply'.result.timestamp >= 60 * 60 * 1000
           /\ \E c \in Calls : Ends(c) /\ calls[c].cached = EntryOf(reply'.result)
    ]_vars

\* a call was answered with a stale entry, flagged
C3_Witness ==
  /\ reply.result.type = "return"
  /\ reply.result.fromCache
  /\ reply.invoked = DeclaredOrder
  /\ reply.http.status = 200
  /\ reply.http.fromCache

\* ---------------------------------------------------------------------- C4
\* C4: a call that began without an entry for its pair and that ends on a
\* provider's failure ends with the NoRateAvailable error and no rate (a 500);
\* a call fails only if no entry existed when it began, all providers were
\* invoked and none was accepted; no request fails on arrival; and a call
\* that starts would accept an acceptable rate from any of the providers.
C4_HardFailure ==
  [][ /\ (Arrives /\ calls' # calls) =>
           LET c == CHOOSE c \in Calls : calls'[c] # calls[c]
           IN /\ calls'[c].cached =
                   Lookup(exchangeRateCache, PairKey(ArrivingPair))
              /\ \A api \in DOMAIN EXCHANGE_RATE_APIS :
                   \A resp \in Responses(calls'[c].from, calls'[c].to) :
                     Acceptable(RateIn(resp, calls'[c].to)) =>
                       Catch(TryBody(EXCHANGE_RATE_APIS[api], resp,
                                     calls'[c].to, calls'[c].now)).kind
                         = "return"
      /\ (Arrives /\ calls' = calls) => reply'.result.type # "throw"
      /\ \A c \in Calls :
           /\ (/\ Ends(c)
               /\ ListedFailure(reply'.resp, calls[c].to)
               /\ calls[c].cached = Undefined) =>
                /\ reply'.result = [type |-> "throw", error |-> "NoRateAvailable"]
                /\ reply'.http.status = 500
                /\ "rate" \notin DOMAIN reply'.http
           /\ (Ends(c) /\ reply'.result.type = "throw") =>
                /\ calls[c].cached = Undefined
                /\ reply'.invoked = DeclaredOrder
                /\ exchangeRateCache' = exchangeRateCache
                /\ ~Acceptable(RateIn(reply'.resp, calls[c].to))
    ]_vars

\* a call failed: no entry, three providers, none accepted
C4_Witness ==
  /\ reply.result = [type |-> "throw", error |-> "NoRateAvailable"]
  /\ reply.invoked = DeclaredOrder
  /\ reply.http.status = 500
  /\ PairKey(<< reply.from, reply.to >>) \notin DOMAIN exchangeRateCache

\* ---------------------------------------------------------------------- C5
\* C5: every call that waits for a provider eventually ends, with a result
\* or with NoRateAvailable, also when the provider never answers.
C5_EveryCallEnds ==
  \A c \in Calls : (calls[c].pc = "await") ~> (calls[c].pc = "idle")

\* ---------------------------------------------------------------------- C6
\* C6: no failure of a provider aborts the call: a call resumed while waiting
\* for a provider other than the last either goes on to the next provider,
\* answering and writing nothing, or ends with that provider's rate, which
\* no listed failure gives; a call ended by a listed failure had invoked all
\* providers and ends degraded or with NoRateAvailable; and NoRateAvailable
\* is the only error a call ends with.
C6_FailuresSwallowed ==
  [][ /\ \A c \in Calls :
           /\ (/\ calls[c].pc = "await"
               /\ calls'[c] # calls[c]
               /\ calls'[c].pc # "hung"
               /\ Len(calls[c].invoked) < Len(DeclaredOrder)) =>
                \/ /\ calls'[c].pc = "await"
                   /\ Len(calls'[c].invoked) = Len(calls[c].invoked) + 1
                   /\ reply' = reply
                   /\ exchangeRateCache' = exchangeRateCache
                \/ /\ Ends(c)
                   /\ FromProvider(reply')
                   /\ ~ListedFailure(reply'.resp, calls[c].to)
           /\ (Ends(c) /\ ListedFailure(reply'.resp, calls[c].to)) =>
                /\ reply'.invoked = DeclaredOrder
                /\ exchangeRateCache' = exchangeRateCache
                /\ \/ reply'.result.type = "return" /\ reply'.result.fromCache
                   \/ reply'.result = [type |-> "throw", error |-> "NoRateAvailable"]
      /\ reply'.result.type = "throw" =>
           /\ reply'.result.error = "NoRateAvailable"
           /\ reply'.http.status = 500
    ]_vars

\* a call went past three failures, the last a rate sent as a numeric
\* string, and ended with NoRateAvailable
C6_Witness ==
  /\ reply.invoked = DeclaredOrder
  /\ RateIn(reply.resp, reply.to) = [t |-> "string", s |-> "7.2"]
  /\ reply.result = [type |-> "throw", error |-> "NoRateAvailable"]

\* ---------------------------------------------------------------------- C7
\* C7: every entry stored in the cache has a rate that is a finite number
\* strictly greater than zero.
C7_CachedRatePositiveFinite ==
  \A key \in DOMAIN exchangeRateCache :
    /\ exchangeRateCache[key].rate.t = "number"
    /\ exchangeRateCache[key].rate.v > 0

\* ---------------------------------------------------------------------- C8
\* C8: every write of a cache entry carries a timestamp greater than or
\* equal to that of the entry it overwrites.
C8_TimestampMonotonic ==
  [][ \A key \in DOMAIN exchangeRateCache :
        exchangeRateCache'[key] # exchangeRateCache[key] =>
          exchangeRateCache'[key].timestamp >= exchangeRateCache[key].timestamp
    ]_vars

\* C8, second half: the timestamp of a written entry is the time of the
\* acquisition, the time at which the provider's rate was accepted.
C8_TimestampOfAcquisition ==
  [][ \A key \in DOMAIN exchangeRateCache' :
        Lookup(exchangeRateCache, key) # exchangeRateCache'[key] =>
          exchangeRateCache'[key].timestamp = clock
    ]_vars

\* ---------------------------------------------------------------------- C9
\* a positive rate rounded to 4 decimals: the nearest multiple of 10^-4
Nearest4(v) ==
  IF v.t # "number" THEN v
  ELSE LET below == v.v - (v.v % 10)
       IN [t |-> "number",
           v |-> IF v.v - below < below + 10 - v.v THEN below ELSE below + 10]

\* C9: whenever a call ends with a rate R accepted from a provider, the rate
\* written to the cache, the rate the call returns and the rate in the
\* answer are one value, R rounded to 4 decimals.
C9_Rounding ==
  [][ \A c \in Calls :
        (Ends(c) /\ FromProvider(reply')) =>
          LET R == RateIn(reply'.resp, calls[c].to)
              key == PairKey(<< calls[c].from, calls[c].to >>)
          IN /\ reply'.result.rate = Nearest4(R)
             /\ exchangeRateCache'[key].rate = reply'.result.rate
             /\ reply'.http.rate = reply'.result.rate
    ]_vars

\* 7.23457 was accepted, and 7.2346 returned and stored
C9_Witness ==
  /\ FromProvider(reply)
  /\ RateIn(reply.resp, reply.to) = [t |-> "number", v |-> 723457]
  /\ reply.result.rate = [t |-> "number", v |-> 723460]
  /\ exchangeRateCache[PairKey(<< reply.from, reply.to >>)].rate
       = [t |-> "number", v |-> 723460]

\* --------------------------------------------------------------------- C10
\* C10: the cache changes only in a step in which a call ends with a rate
\* accepted from a provider, and then exactly the entry of that call's pair
\* is replaced, by the returned rate, timestamp and source as one record;
\* every other answer (cache hit, degraded, failure, identity, 400) and
\* every other step leaves the cache as it is; no entry is ever deleted and
\* no entry of another pair changes.
C10_CacheFrame ==
  [][ /\ DOMAIN exchangeRateCache \subseteq DOMAIN exchangeRateCache'
      /\ exchangeRateCache' # exchangeRateCache =>
           \E c \in Calls :
             LET key == PairKey(<< calls[c].from, calls[c].to >>)
             IN /\ Ends(c)
                /\ FromProvider(reply')
                /\ DOMAIN exchangeRateCache' = DOMAIN exchangeRateCache \cup {key}
                /\ \A k \in DOMAIN exchangeRateCache :
                     k # key => exchangeRateCache'[k] = exchangeRateCache[k]
                /\ exchangeRateCache'[key] = EntryOf(reply'.result)
      /\ (Answered /\ ~FromProvider(reply')) =>
           exchangeRateCache' = exchangeRateCache
      /\ ~Answered => exchangeRateCache' = exchangeRateCache
    ]_vars

\* a call wrote the entry of its pair while the reversed pair had an entry
C10_Witness ==
  /\ FromProvider(reply)
  /\ DOMAIN exchangeRateCache = {"USD-CNY", "CNY-USD"}
  /\ exchangeRateCache[PairKey(<< reply.from, reply.to >>)] = EntryOf(reply.result)
  /\ exchangeRateCache[PairKey(<< reply.to, reply.from >>)].timestamp
       < reply.result.timestamp

\* --------------------------------------------------------------------- C11
\* C11: a request for a pair (X, X) of a supported code X is answered at once
\* with a 200 carrying rate 1, source "direct" and fromCache false, whatever
\* the cache holds and whatever the calls in flight are waiting for;
\* fetchExchangeRate is not called for it, so no provider is invoked and no
\* call starts, and the cache is left as it was.
C11_Identity ==
  [][ (/\ Arrives
       /\ ArrivingPair[1] = ArrivingPair[2]
       /\ ArrivingPair[1] \in supportedCurrencies) =>
        /\ calls' = calls
        /\ exchangeRateCache' = exchangeRateCache
        /\ reply'.http.status = 200
        /\ reply'.http.success
        /\ reply'.http.rate = Num(100000)
        /\ reply'.http.source = "direct"
        /\ reply'.http.fromCache = FALSE
        /\ reply'.http.base = ArrivingPair[1]
        /\ reply'.http.target = ArrivingPair[1]
        /\ reply'.result = NoResult
        /\ reply'.invoked = << >>
    ]_vars

\* USD-USD was answered while the cache held an entry written an hour before
C11_Witness ==
  /\ reply.from = "USD"
  /\ reply.to = "USD"
  /\ reply.http.status = 200
  /\ reply.http.source = "direct"
  /\ \E key \in DOMAIN exchangeRateCache :
       clock - exchangeRateCache[key].timestamp >= duration

\* --------------------------------------------------------------------- C12
\* call c ends in this step on the stale-fallback path: with the entry it
\* read when it began
StaleFallback(c) ==
  /\ Ends(c)
  /\ calls[c].cached # Undefined
  /\ reply'.result.type = "return"
  /\ EntryOf(reply'.result) = calls[c].cached

\* the pair answered in this step
AnsweredPair == << reply'.from, reply'.to >>

Supported(pair) ==
  pair[1] \in supportedCurrencies /\ pair[2] \in supportedCurrencies

\* C12: every answer of GET /api/exchange-rate has status 400, 500 or 200.
\* A request with an unsupported from or to (equal or not) is answered 400
\* on arrival, no call started, no provider invoked, the cache untouched,
\* and only such a request is answered 400.  A request with supported codes
\* is answered 500 exactly when fetchExchangeRate ended with the error and
\* 200 otherwise; a 200 carries fromCache true exactly when the call ended
\* on the stale-fallback path.
C12_HttpOutcome ==
  [][ /\ (Arrives /\ ~Supported(ArrivingPair)) =>
           /\ calls' = calls
           /\ exchangeRateCache' = exchangeRateCache
           /\ reply'.http.status = 400
           /\ reply'.http.success = FALSE
           /\ reply'.result = NoResult
           /\ reply'.invoked = << >>
      /\ (Arrives /\ calls' # calls) => Supported(ArrivingPair)
      /\ Answered =>
           /\ reply'.http.status \in {200, 400, 500}
           /\ reply'.http.status = 400 <=> ~Supported(AnsweredPair)
           /\ reply'.http.status = 500 <=> reply'.result.type = "throw"
           /\ reply'.http.status = 500 => reply'.http.success = FALSE
           /\ reply'.http.status = 200 =>
                /\ reply'.http.success
                /\ reply'.http.fromCache <=> \E c \in Calls : StaleFallback(c)
                /\ (Arrives \/ FromProvider(reply')) =>
                     reply'.http.fromCache = FALSE
    ]_vars

\* XXX-XXX was answered 400 while a call was waiting for a provider
C12_Witness ==
  /\ reply.from = "XXX"
  /\ reply.to = "XXX"
  /\ reply.http.status = 400
  /\ \E c \in Calls : calls[c].pc = "await"

\* --------------------------------------------------------------------- C13
\* C13: a call that ends after its last provider failed falls back to the
\* entry the cache holds for its pair at that moment: it returns that entry,
\* flagged as degraded, and it fails with NoRateAvailable only if the cache
\* then holds no entry for the pair.
C13_ExhaustionReadsCache ==
  [][ \A c \in Calls :
        (Ends(c) /\ ~FromProvider(reply')) =>
          LET held == Lookup(exchangeRateCache,
                             PairKey(<< calls[c].from, calls[c].to >>))
          IN IF held = Undefined
             THEN reply'.result = [type |-> "throw", error |-> "NoRateAvailable"]
             ELSE /\ reply'.result.type = "return"
                  /\ reply'.result.fromCache
                  /\ EntryOf(reply'.result) = held
    ]_vars

====
